---- MODULE Spec2Model ----
(***************************************************************************)
(* Model of the port-mapping reconciliation pass of oneclickvirt:          *)
(*   server/service/task/sync_port_mappings_task.go                        *)
(*     TaskService.syncProviderPortMappings                                *)
(* A pass lists the instances of a provider, queries the local rows of    *)
(* that provider, detects the rows whose name the provider does not        *)
(* report (orphans) and cleans every orphan in a short transaction of its  *)
(* own.  Every statement of the function that reads or writes storage, or  *)
(* that can fail, is one action.                                           *)
(***************************************************************************)
EXTENDS Integers, Sequences, FiniteSets, TLC

\* ---------------------------------------------------------------- bounds
NInst == 2          \* rows of the instances table
NPorts == 2         \* rows of the ports table
MaxRemote == 2      \* length of the provider's instance listing

InstIds == 1..NInst
PortIds == 1..NPorts
Providers == {1, 2}
Names == {"A", "B"}
\* the statuses the stored rows are drawn from: one that the query of the pass
\* keeps and the two that it excludes
RowStatuses == {"running", "deleting", "deleted"}

\* ------------------------------------------------------------- helpers
SeqsUpTo(S, n) == UNION {[1..k -> S] : k \in 0..n}

\* the orders in which a SELECT without ORDER BY may return a set of rows
RowOrders(rows) ==
    {s \in [1..Cardinality(rows) -> rows] :
        \A i, j \in 1..Cardinality(rows) : i # j => s[i] # s[j]}

NoErr == "nil"

VARIABLES
    instances,              \* table instances: ID -> row
    ports,                  \* table ports: set of rows [ID, InstanceID]
    pc,                     \* position of the pass
    prov,                   \* prov.ID of the pass
    remoteInstances,        \* result of provInstance.ListInstances
    remoteInstanceMap,      \* keys of the name lookup
    dbInstances,            \* rows returned by the local query
    orphanedInstances,      \* detected orphans
    idx,                    \* position of the cleanup loop in orphanedInstances
    portCount,              \* portCount of the running transaction
    txPorts,                \* port rows deleted inside the running transaction
    txInst,                 \* instance rows soft-deleted inside the running transaction
    warned,                 \* the running transaction logged the port-mapping warning
    cleanedCount, cleanedInstances, cleanedPorts, cleanedInstanceNames,
    ret,                    \* the six values returned by the pass
    passesLeft,             \* passes the scheduler may still start
    remote,                 \* what each provider reports, once it has been listed
    ctx,                    \* the context of the pass: "background", "live", "cancelled"
    providers,              \* table providers: ID -> status
    task,                   \* the run of executeSyncPortMappingsTask
    second,                 \* a pass that runs at the same time, for another provider
    status,                 \* the string handed to the status predicates
    classified,             \* what each status predicate answered for it
    fault,                  \* history: the fatal call of the pass, or "none"
    pre,                    \* history: storage when the pass started
    log,                    \* history: outcome of every transaction of the pass
    hist                    \* history: one record per finished pass

storage == <<instances, ports>>
locals == <<remoteInstances, remoteInstanceMap, dbInstances, orphanedInstances, idx,
            portCount, txPorts, txInst, warned>>
counters == <<cleanedCount, cleanedInstances, cleanedPorts, cleanedInstanceNames>>
history == <<fault, pre, log, hist>>
outside == <<ctx, providers, task, second, status, classified>>
vars == <<instances, ports, pc, prov, remoteInstances, remoteInstanceMap, dbInstances,
          orphanedInstances, idx, portCount, txPorts, txInst, warned, cleanedCount,
          cleanedInstances, cleanedPorts, cleanedInstanceNames, ret, passesLeft,
          remote, fault, pre, log, hist, ctx, providers, task, second, status,
          classified>>

NoRet == [checked |-> 0, cleaned |-> 0, instances |-> 0, ports |-> 0,
          names |-> <<>>, err |-> "pending"]

\* ------------------------------------------------- the code's pure steps

\* lines 117-120: remoteInstanceMap[inst.Name] = inst for every listed instance;
\* the model keeps the key set of the map (the values are never read)
BuildRemoteInstanceMap_LastOnly(listing) ==
    IF listing = <<>> THEN {} ELSE {listing[Len(listing)]}

RECURSIVE BuildRemoteInstanceMap(_)
BuildRemoteInstanceMap(listing) ==
    IF listing = <<>> THEN {}
    ELSE BuildRemoteInstanceMap(SubSeq(listing, 1, Len(listing) - 1))
            \cup {listing[Len(listing)]}

\* lines 128-129: Where("provider_id = ? AND status NOT IN ?", prov.ID,
\* {"deleted","deleting"}).Find(&dbInstances); rows carrying a soft-delete mark
\* are outside every Find
ExcludedStatuses == {"deleted", "deleting"}

FindProviderInstances_Unscoped(tbl, p) ==
    {tbl[i] : i \in {j \in DOMAIN tbl :
           /\ tbl[j].ProviderID = p
           /\ tbl[j].Status \notin ExcludedStatuses}}

FindProviderInstances_AllProviders(tbl, p) ==
    {tbl[i] : i \in {j \in DOMAIN tbl :
           /\ tbl[j].Status \notin ExcludedStatuses
           /\ ~tbl[j].DeletedAt}}

FindProviderInstances(tbl, p) ==
    {tbl[i] : i \in {j \in DOMAIN tbl :
           /\ tbl[j].ProviderID = p
           /\ tbl[j].Status \notin ExcludedStatuses
           /\ ~tbl[j].DeletedAt}}

\* line 140: _, exists := remoteInstanceMap[dbInst.Name]; !exists
IsOrphaned(dbInst, map) == dbInst.Name \notin map

\* lines 138-143: append every orphaned row, in the order of dbInstances
RECURSIVE DetectOrphans_StopAtFirst(_, _)
DetectOrphans_StopAtFirst(rows, map) ==
    IF rows = <<>> THEN <<>>
    ELSE IF IsOrphaned(Head(rows), map) THEN <<Head(rows)>>
         ELSE DetectOrphans_StopAtFirst(Tail(rows), map)

RECURSIVE DetectOrphans(_, _)
DetectOrphans(rows, map) ==
    IF rows = <<>> THEN <<>>
    ELSE LET rest == DetectOrphans(Tail(rows), map)
         IN  IF IsOrphaned(Head(rows), map) THEN <<Head(rows)>> \o rest ELSE rest

\* lines 165-167: Count of the port rows of one instance, as the transaction sees them
CountPorts(tbl, deletedInTx, instId) ==
    Cardinality({p \in tbl : p.InstanceID = instId /\ p.ID \notin deletedInTx})

\* line 173: DeleteInstancePortMappingsInTx removes the port rows of the instance
\* inside the transaction; a call that returns an error has removed none
PortsOfInstance(tbl, instId) == {p.ID : p \in {q \in tbl : q.InstanceID = instId}}

\* lines 186-188: the bookkeeping at the end of the transaction body
CleanedInstancesAfter(n) == n + 1
CleanedPortsAfter(n, counted) == n + counted
CleanedNamesAfter(names, orphan) == Append(names, orphan.Name)

\* line 207: cleanedCount++ after a transaction that returned nil
CleanedCountAfter(n) == n + 1

\* line 173, once committed: the port rows the transaction deleted are gone
DeletePortRows(tbl, deletedInTx) == {p \in tbl : p.ID \notin deletedInTx}

\* line 182, once committed: tx.Delete(&orphanInst) marks the row deleted and
\* leaves its columns, the status among them, as they are
SoftDeleteInstances(tbl, deletedInTx) ==
    [i \in DOMAIN tbl |-> IF i \in deletedInTx THEN [tbl[i] EXCEPT !.DeletedAt = TRUE]
                          ELSE tbl[i]]

\* ------------------------------------------------------------ the pass
Unlisted == <<"?">>

\* ctx of line 98 is handed to ListInstances (line 111) and to ExecuteTransaction
\* (line 162): a call or a statement on a cancelled context returns an error
Alive == ctx # "cancelled"

NoTask == [pc |-> "none"]
NoSecond == [pc |-> "none"]
NotClassified == [k \in {} |-> FALSE]

Result(checked, cleaned, inst, prt, names, err) ==
    [checked |-> checked, cleaned |-> cleaned, instances |-> inst, ports |-> prt,
     names |-> names, err |-> err]

PassRecord(r, st) ==
    [prov |-> prov, ret |-> r, listing |-> remoteInstances, db |-> dbInstances,
     orphans |-> orphanedInstances, log |-> log, pre |-> pre, post |-> st]

\* a return statement of syncProviderPortMappings
Return(r) ==
    /\ pc' = "done"
    /\ ret' = r
    /\ hist' = Append(hist, PassRecord(r, storage))

ZeroReturn_NilError(err) == Return(Result(0, 0, 0, 0, <<>>, NoErr))

\* lines 102, 107, 113, 130: return 0, 0, 0, 0, nil, fmt.Errorf(...)
ZeroReturn(err) == Return(Result(0, 0, 0, 0, <<>>, err))

\* a call of the first four steps failed
FailPass(call) ==
    /\ fault' = call
    /\ ZeroReturn(call)

\* local rows carry any name: two rows of one provider may share one
InitRows ==
    [InstIds -> [ID : InstIds, Name : Names, ProviderID : Providers,
                 Status : RowStatuses, DeletedAt : {FALSE}]]

\* every port row has an owner; the pass reads the owner of a port row and never
\* its ID, so the rows are taken numbered in the order of their owners
InitOwners ==
    {f \in [PortIds -> InstIds] : \A a, b \in PortIds : a < b => f[a] <= f[b]}

InitStorage ==
    /\ instances \in {t \in InitRows : \A i \in InstIds : t[i].ID = i}
    /\ ports \in {{[ID |-> k, InstanceID |-> f[k]] : k \in PortIds} : f \in InitOwners}

InitFrame ==
    /\ pc = "idle"
    /\ prov = 0
    /\ remoteInstances = <<>>
    /\ remoteInstanceMap = {}
    /\ dbInstances = <<>>
    /\ orphanedInstances = <<>>
    /\ idx = 0
    /\ portCount = 0
    /\ txPorts = {}
    /\ txInst = {}
    /\ warned = FALSE
    /\ cleanedCount = 0
    /\ cleanedInstances = 0
    /\ cleanedPorts = 0
    /\ cleanedInstanceNames = <<>>
    /\ ret = NoRet
    /\ fault = "none"
    /\ pre = [instances |-> instances, ports |-> ports]
    /\ log = <<>>
    /\ hist = <<>>

\* no provider has been listed yet: what it reports is fixed by the first listing
InitPass ==
    /\ InitFrame
    /\ remote = [p \in Providers |-> Unlisted]

\* a pass started on its own: a context nobody cancels, no task, no other pass
InitAlone ==
    /\ ctx = "background"
    /\ providers = [p \in Providers |-> "active"]
    /\ task = NoTask
    /\ second = NoSecond
    /\ status = ""
    /\ classified = NotClassified

Init ==
    /\ InitStorage
    /\ InitPass
    /\ InitAlone
    /\ passesLeft = 1

\* the provider a pass that runs at the same time works on
Busy == IF second.pc = "none" THEN {} ELSE {second.prov}

\* the scheduler hands a provider to syncProviderPortMappings (line 98)
StartPass ==
    /\ pc \in {"idle", "done"}
    /\ passesLeft > 0
    /\ passesLeft' = passesLeft - 1
    /\ task.pc \in {"none", "sync"}
    /\ prov' \in (IF task.pc = "sync" THEN {task.providerID} ELSE Providers \ Busy)
    /\ task' = (IF task.pc = "sync" THEN [task EXCEPT !.pc = "syncing"] ELSE task)
    /\ pc' = "getProvider"
    /\ remoteInstances' = <<>>
    /\ remoteInstanceMap' = {}
    /\ dbInstances' = <<>>
    /\ orphanedInstances' = <<>>
    /\ idx' = 0
    /\ portCount' = 0
    /\ txPorts' = {}
    /\ txInst' = {}
    /\ warned' = FALSE
    /\ cleanedCount' = 0
    /\ cleanedInstances' = 0
    /\ cleanedPorts' = 0
    /\ cleanedInstanceNames' = <<>>
    /\ ret' = NoRet
    /\ fault' = "none"
    /\ pre' = [instances |-> instances, ports |-> ports]
    /\ log' = <<>>
    /\ UNCHANGED <<storage, remote, hist>>
    /\ UNCHANGED <<ctx, providers, second, status, classified>>

\* lines 100-103
GetProviderByID ==
    /\ pc = "getProvider"
    /\ \E ok \in BOOLEAN :
         IF ok THEN pc' = "checkConnection" /\ UNCHANGED <<ret, hist, fault>>
         ELSE FailPass("GetProviderByID")
    /\ UNCHANGED <<storage, prov, locals, counters, passesLeft, remote, pre, log>>
    /\ UNCHANGED outside

\* lines 106-108
CheckProviderConnection ==
    /\ pc = "checkConnection"
    /\ \E ok \in BOOLEAN :
         IF ok THEN pc' = "listInstances" /\ UNCHANGED <<ret, hist, fault>>
         ELSE FailPass("CheckProviderConnection")
    /\ UNCHANGED <<storage, prov, locals, counters, passesLeft, remote, pre, log>>
    /\ UNCHANGED outside

ListInstances_IgnoreCtx ==
    /\ pc = "listInstances"
    /\ \/ /\ \E listing \in SeqsUpTo(Names, MaxRemote) :
             /\ remote[prov] \in {Unlisted, listing}
             /\ remote' = [remote EXCEPT ![prov] = listing]
             /\ remoteInstances' = listing
          /\ pc' = "buildMap"
          /\ UNCHANGED <<ret, hist, fault>>
       \/ /\ FailPass("ListInstances")
          /\ UNCHANGED <<remote, remoteInstances>>
    /\ UNCHANGED <<storage, prov, remoteInstanceMap, dbInstances, orphanedInstances, idx,
                   portCount, txPorts, txInst, warned, counters, passesLeft, pre, log>>
    /\ UNCHANGED outside

\* lines 111-114: the provider answers with its instances, or the call fails
ListInstances ==
    /\ pc = "listInstances"
    /\ \/ /\ Alive
          /\ \E listing \in SeqsUpTo(Names, MaxRemote) :
                /\ remote[prov] \in {Unlisted, listing}
                /\ remote' = [remote EXCEPT ![prov] = listing]
                /\ remoteInstances' = listing
          /\ pc' = "buildMap"
          /\ UNCHANGED <<ret, hist, fault>>
       \/ /\ FailPass("ListInstances")
          /\ UNCHANGED <<remote, remoteInstances>>
    /\ UNCHANGED <<storage, prov, remoteInstanceMap, dbInstances, orphanedInstances, idx,
                   portCount, txPorts, txInst, warned, counters, passesLeft, pre, log>>
    /\ UNCHANGED outside

\* lines 117-120
BuildMap ==
    /\ pc = "buildMap"
    /\ remoteInstanceMap' = BuildRemoteInstanceMap(remoteInstances)
    /\ pc' = "queryInstances"
    /\ UNCHANGED <<storage, prov, remoteInstances, dbInstances, orphanedInstances, idx,
                   portCount, txPorts, txInst, warned, counters, ret, passesLeft, remote, history>>
    /\ UNCHANGED outside

\* lines 127-131: the rows of the WHERE clause, in the order the database
\* returns them (the statement has no ORDER BY)
QueryInstances ==
    /\ pc = "queryInstances"
    /\ \/ /\ dbInstances' \in RowOrders(FindProviderInstances(instances, prov))
          /\ pc' = "detect"
          /\ UNCHANGED <<ret, hist, fault>>
       \/ /\ FailPass("Find")
          /\ UNCHANGED dbInstances
    /\ UNCHANGED <<storage, prov, remoteInstances, remoteInstanceMap, orphanedInstances,
                   idx, portCount, txPorts, txInst, warned, counters, passesLeft, remote, pre, log>>
    /\ UNCHANGED outside

\* lines 138-149: detection, and the early return when nothing is orphaned
Detect ==
    /\ pc = "detect"
    /\ LET found == DetectOrphans(dbInstances, remoteInstanceMap) IN
         /\ orphanedInstances' = found
         /\ IF Len(found) = 0
            THEN /\ pc' = "done"
                 /\ ret' = Result(Len(dbInstances), 0, 0, 0, <<>>, NoErr)
                 /\ hist' = Append(hist,
                       [PassRecord(ret', storage) EXCEPT !.orphans = found])
                 /\ idx' = 0
            ELSE /\ pc' = "loop"
                 /\ idx' = 1
                 /\ UNCHANGED <<ret, hist>>
    /\ UNCHANGED <<storage, prov, remoteInstances, remoteInstanceMap, dbInstances,
                   portCount, txPorts, txInst, warned, counters, passesLeft, remote,
                   fault, pre, log>>
    /\ UNCHANGED outside

\* ------------------------------------ the cleanup loop, lines 160-208
Orphan == orphanedInstances[idx]

LogEntry(result, removed) ==
    [id |-> Orphan.ID, name |-> Orphan.Name, result |-> result, warned |-> warned,
     counted |-> portCount, removed |-> removed]

\* line 162: ExecuteTransaction opens a transaction for the next orphan
BeginTransaction ==
    /\ pc = "loop"
    /\ idx <= Len(orphanedInstances)
    /\ pc' = "txCount"
    /\ portCount' = 0
    /\ txPorts' = {}
    /\ txInst' = {}
    /\ warned' = FALSE
    /\ UNCHANGED <<storage, prov, remoteInstances, remoteInstanceMap, dbInstances,
                   orphanedInstances, idx, counters, ret, passesLeft, remote, history>>
    /\ UNCHANGED outside

\* the transaction ends without a commit: nothing it wrote reaches the tables
Rollback ==
    /\ txPorts' = {}
    /\ txInst' = {}
    /\ UNCHANGED storage

OnTransactionError_Break(stage) ==
    /\ log' = Append(log, LogEntry(stage, 0))
    /\ idx' = Len(orphanedInstances) + 1
    /\ pc' = "loop"
    /\ UNCHANGED cleanedCount

\* lines 198-205: ExecuteTransaction returned an error; log it and continue
\* with the next orphan
OnTransactionError(stage) ==
    /\ log' = Append(log, LogEntry(stage, 0))
    /\ idx' = idx + 1
    /\ pc' = "loop"
    /\ UNCHANGED cleanedCount

AbortTransaction(stage) == Rollback /\ OnTransactionError(stage)

TxCountPorts_SkipPorts ==
    /\ pc = "txCount"
    /\ \/ /\ Alive
          /\ portCount' = CountPorts(ports, txPorts, Orphan.ID)
          /\ pc' = "txDelete"
          /\ UNCHANGED <<storage, txPorts, txInst, idx, log, cleanedCount>>
       \/ /\ AbortTransaction("count")
          /\ UNCHANGED portCount
    /\ UNCHANGED <<prov, remoteInstances, remoteInstanceMap, dbInstances, orphanedInstances,
                   warned, cleanedInstances, cleanedPorts, cleanedInstanceNames, ret,
                   passesLeft, remote, fault, pre, hist>>
    /\ UNCHANGED outside

\* lines 164-169
TxCountPorts ==
    /\ pc = "txCount"
    /\ \/ /\ Alive
          /\ portCount' = CountPorts(ports, txPorts, Orphan.ID)
          /\ pc' = "txDeletePorts"
          /\ UNCHANGED <<storage, txPorts, txInst, idx, log, cleanedCount>>
       \/ /\ AbortTransaction("count")
          /\ UNCHANGED portCount
    /\ UNCHANGED <<prov, remoteInstances, remoteInstanceMap, dbInstances, orphanedInstances,
                   warned, cleanedInstances, cleanedPorts, cleanedInstanceNames, ret,
                   passesLeft, remote, fault, pre, hist>>
    /\ UNCHANGED outside

\* lines 171-179: an error of the deletion is logged and not returned
TxDeletePortMappings ==
    /\ pc = "txDeletePorts"
    /\ \/ /\ Alive
          /\ txPorts' = PortsOfInstance(ports, Orphan.ID)
          /\ UNCHANGED warned
       \/ /\ warned' = TRUE
          /\ UNCHANGED txPorts
    /\ pc' = "txDelete"
    /\ UNCHANGED <<storage, prov, remoteInstances, remoteInstanceMap, dbInstances,
                   orphanedInstances, idx, portCount, txInst, counters, ret, passesLeft,
                   remote, history>>
    /\ UNCHANGED outside

TxDeleteInstance_CountFirst ==
    /\ pc = "txDelete"
    /\ cleanedInstances' = CleanedInstancesAfter(cleanedInstances)
    /\ cleanedPorts' = CleanedPortsAfter(cleanedPorts, portCount)
    /\ cleanedInstanceNames' = CleanedNamesAfter(cleanedInstanceNames, Orphan)
    /\ \/ /\ Alive
          /\ txInst' = {Orphan.ID}
          /\ pc' = "txCommit"
          /\ UNCHANGED <<storage, txPorts, idx, log, cleanedCount>>
       \/ AbortTransaction("delete")
    /\ UNCHANGED <<prov, remoteInstances, remoteInstanceMap, dbInstances, orphanedInstances,
                   portCount, warned, ret, passesLeft, remote, fault, pre, hist>>
    /\ UNCHANGED outside

\* lines 181-195: the soft delete, then the bookkeeping of the closure
TxDeleteInstance ==
    /\ pc = "txDelete"
    /\ \/ /\ Alive
          /\ txInst' = {Orphan.ID}
          /\ cleanedInstances' = CleanedInstancesAfter(cleanedInstances)
          /\ cleanedPorts' = CleanedPortsAfter(cleanedPorts, portCount)
          /\ cleanedInstanceNames' = CleanedNamesAfter(cleanedInstanceNames, Orphan)
          /\ pc' = "txCommit"
          /\ UNCHANGED <<storage, txPorts, idx, log, cleanedCount>>
       \/ /\ AbortTransaction("delete")
          /\ UNCHANGED <<cleanedInstances, cleanedPorts, cleanedInstanceNames>>
    /\ UNCHANGED <<prov, remoteInstances, remoteInstanceMap, dbInstances, orphanedInstances,
                   portCount, warned, ret, passesLeft, remote, fault, pre, hist>>
    /\ UNCHANGED outside

TxCommit_FromSnapshot ==
    /\ pc = "txCommit"
    /\ \/ /\ Alive
          /\ ports' = DeletePortRows(pre.ports, txPorts)
          /\ instances' = SoftDeleteInstances(pre.instances, txInst)
          /\ cleanedCount' = CleanedCountAfter(cleanedCount)
          /\ log' = Append(log, LogEntry("ok", Cardinality(txPorts)))
          /\ txPorts' = {}
          /\ txInst' = {}
          /\ idx' = idx + 1
          /\ pc' = "loop"
       \/ AbortTransaction("commit")
    /\ UNCHANGED <<prov, remoteInstances, remoteInstanceMap, dbInstances, orphanedInstances,
                   portCount, warned, cleanedInstances, cleanedPorts, cleanedInstanceNames,
                   ret, passesLeft, remote, fault, pre, hist>>
    /\ UNCHANGED outside

\* lines 196-207: the closure returned nil; ExecuteTransaction commits or fails to
TxCommit ==
    /\ pc = "txCommit"
    /\ \/ /\ Alive
          /\ ports' = DeletePortRows(ports, txPorts)
          /\ instances' = SoftDeleteInstances(instances, txInst)
          /\ cleanedCount' = CleanedCountAfter(cleanedCount)
          /\ log' = Append(log, LogEntry("ok", Cardinality(txPorts)))
          /\ txPorts' = {}
          /\ txInst' = {}
          /\ idx' = idx + 1
          /\ pc' = "loop"
       \/ AbortTransaction("commit")
    /\ UNCHANGED <<prov, remoteInstances, remoteInstanceMap, dbInstances, orphanedInstances,
                   portCount, warned, cleanedInstances, cleanedPorts, cleanedInstanceNames,
                   ret, passesLeft, remote, fault, pre, hist>>
    /\ UNCHANGED outside

ReturnCounts_SurfaceFailure ==
    /\ pc = "loop"
    /\ idx > Len(orphanedInstances)
    /\ Return(Result(Len(dbInstances), cleanedCount, cleanedInstances, cleanedPorts,
                     cleanedInstanceNames,
                     IF cleanedCount < Len(orphanedInstances) THEN "transaction"
                     ELSE NoErr))
    /\ UNCHANGED <<storage, prov, locals, counters, passesLeft, remote, fault, pre, log>>
    /\ UNCHANGED outside

ReturnCounts_CheckedOrphans ==
    /\ pc = "loop"
    /\ idx > Len(orphanedInstances)
    /\ Return(Result(Len(orphanedInstances), cleanedCount, cleanedInstances, cleanedPorts,
                     cleanedInstanceNames, NoErr))
    /\ UNCHANGED <<storage, prov, locals, counters, passesLeft, remote, fault, pre, log>>
    /\ UNCHANGED outside

ReturnCounts_CtxErr ==
    /\ pc = "loop"
    /\ idx > Len(orphanedInstances)
    /\ Return(Result(Len(dbInstances), cleanedCount, cleanedInstances, cleanedPorts,
                     cleanedInstanceNames, IF Alive THEN NoErr ELSE "cancelled"))
    /\ UNCHANGED <<storage, prov, locals, counters, passesLeft, remote, fault, pre, log>>
    /\ UNCHANGED outside

\* line 210
ReturnCounts ==
    /\ pc = "loop"
    /\ idx > Len(orphanedInstances)
    /\ Return(Result(Len(dbInstances), cleanedCount, cleanedInstances, cleanedPorts,
                     cleanedInstanceNames, NoErr))
    /\ UNCHANGED <<storage, prov, locals, counters, passesLeft, remote, fault, pre, log>>
    /\ UNCHANGED outside

Next ==
    \/ StartPass
    \/ GetProviderByID
    \/ CheckProviderConnection
    \/ ListInstances
    \/ BuildMap
    \/ QueryInstances
    \/ Detect
    \/ BeginTransaction
    \/ TxCountPorts
    \/ TxDeletePortMappings
    \/ TxDeleteInstance
    \/ TxCommit
    \/ ReturnCounts

Spec == Init /\ [][Next]_vars

\* the scheduler runs two passes, one right after the other
InitRerun ==
    /\ InitStorage
    /\ InitPass
    /\ InitAlone
    /\ passesLeft = 2

SpecRerun == InitRerun /\ [][Next]_vars

\* --------------------------------------------------- two passes at a time
\* the call frame of syncProviderPortMappings: its position, its locals, its
\* six named results, and the history kept about it
Frame ==
    [pc |-> pc, prov |-> prov, remoteInstances |-> remoteInstances,
     remoteInstanceMap |-> remoteInstanceMap, dbInstances |-> dbInstances,
     orphanedInstances |-> orphanedInstances, idx |-> idx, portCount |-> portCount,
     txPorts |-> txPorts, txInst |-> txInst, warned |-> warned,
     cleanedCount |-> cleanedCount, cleanedInstances |-> cleanedInstances,
     cleanedPorts |-> cleanedPorts, cleanedInstanceNames |-> cleanedInstanceNames,
     ret |-> ret, fault |-> fault, pre |-> pre, log |-> log]

\* a pass for provider p that has been called and has not taken a step
StartedFrame(p, st) ==
    [pc |-> "getProvider", prov |-> p, remoteInstances |-> <<>>,
     remoteInstanceMap |-> {}, dbInstances |-> <<>>, orphanedInstances |-> <<>>,
     idx |-> 0, portCount |-> 0, txPorts |-> {}, txInst |-> {}, warned |-> FALSE,
     cleanedCount |-> 0, cleanedInstances |-> 0, cleanedPorts |-> 0,
     cleanedInstanceNames |-> <<>>, ret |-> NoRet, fault |-> "none", pre |-> st,
     log |-> <<>>]

FirstProvider == CHOOSE p \in Providers : TRUE

\* two goroutines run syncProviderPortMappings on the same tables, each for its
\* own provider; one has been called already, the other is about to be (which
\* provider the first call got makes no difference, the rows cover both cases);
\* every provider has a running row, so that both passes have something to clean,
\* and reports no instance or one, the shapes of a listing being the business of
\* the pass on its own
InitConcurrent ==
    /\ InitStorage
    /\ \A i \in InstIds : instances[i].Status = "running"
    /\ \A p \in Providers : \E i \in InstIds : instances[i].ProviderID = p
    /\ InitFrame
    /\ remote \in [Providers -> {<<>>} \cup {<<n>> : n \in Names}]
    /\ passesLeft = 1
    /\ ctx = "background"
    /\ providers = [p \in Providers |-> "active"]
    /\ task = NoTask
    /\ status = ""
    /\ classified = NotClassified
    /\ second = StartedFrame(FirstProvider, [instances |-> instances, ports |-> ports])

\* the Go scheduler takes the processor from one pass and gives it to the other:
\* the steps that follow are steps of the other pass
Switch ==
    /\ second.pc \notin {"none", "done"}
    /\ second' = Frame
    /\ pc' = second.pc
    /\ prov' = second.prov
    /\ remoteInstances' = second.remoteInstances
    /\ remoteInstanceMap' = second.remoteInstanceMap
    /\ dbInstances' = second.dbInstances
    /\ orphanedInstances' = second.orphanedInstances
    /\ idx' = second.idx
    /\ portCount' = second.portCount
    /\ txPorts' = second.txPorts
    /\ txInst' = second.txInst
    /\ warned' = second.warned
    /\ cleanedCount' = second.cleanedCount
    /\ cleanedInstances' = second.cleanedInstances
    /\ cleanedPorts' = second.cleanedPorts
    /\ cleanedInstanceNames' = second.cleanedInstanceNames
    /\ ret' = second.ret
    /\ fault' = second.fault
    /\ pre' = second.pre
    /\ log' = second.log
    /\ UNCHANGED <<storage, passesLeft, remote, hist, ctx, providers, task, status,
                   classified>>

NextConcurrent ==
    \/ Next
    \/ Switch

SpecConcurrent == InitConcurrent /\ [][NextConcurrent]_vars

\* ------------------------------------------- executeSyncPortMappingsTask
NilProviderID == 0
UnknownProviderID == 3

\* task.ProviderID: nil, a row of the providers table, or an ID without a row
TaskProviderIDs == {NilProviderID, UnknownProviderID} \cup Providers

\* lines 67-77: the completion message built from the values the pass returned
CompletionMsg(r) ==
    IF r.cleaned > 0
    THEN [checked |-> r.checked, text |-> "cleaned", instances |-> r.instances,
          ports |-> r.ports, names |-> r.names]
    ELSE [checked |-> r.checked, text |-> "no orphans found", instances |-> 0,
          ports |-> 0, names |-> <<>>]

\* what the run of the task leaves alone besides the task itself
TaskFrame == <<storage, pc, prov, locals, counters, ret, passesLeft, remote, history,
               ctx, providers, second, status, classified>>

TaskReturn(err) == task' = [task EXCEPT !.pc = "returned", !.err = err]

\* the task queue hands over a task; its context can be cancelled; the rows are
\* all running, the query's status filter being exercised by the pass on its own
InitTask ==
    /\ InitStorage
    /\ \A i \in InstIds : instances[i].Status = "running"
    /\ InitPass
    /\ passesLeft = 1
    /\ ctx = "live"
    /\ providers \in [Providers -> {"active", "inactive"}]
    /\ second = NoSecond
    /\ status = ""
    /\ classified = NotClassified
    /\ \E ok \in BOOLEAN, id \in TaskProviderIDs :
          /\ \A p \in Providers : providers[p] = "inactive" => (ok /\ id = p)
          /\ task = [pc |-> "start", dataOk |-> ok, providerID |-> id, progress |-> <<>>,
                     sink |-> <<>>, err |-> "pending", cancelledAt |-> "never"]

\* the part of the pass a position belongs to
Phase(at) ==
    IF at \in {"idle", "getProvider", "checkConnection", "listInstances"} THEN "listing"
    ELSE IF at \in {"buildMap", "queryInstances", "detect"} THEN "detection"
    ELSE IF at = "done" THEN "returned"
    ELSE "cleanup"

\* the owner of the context cancels it while the task runs
Cancel ==
    /\ ctx = "live"
    /\ task.pc # "returned"
    /\ ctx' = "cancelled"
    /\ task' = [task EXCEPT !.cancelledAt = Phase(pc)]
    /\ UNCHANGED <<storage, pc, prov, locals, counters, ret, passesLeft, remote, history,
                   providers, second, status, classified>>

\* line 25
UpdateProgress5 ==
    /\ task.pc = "start"
    /\ task' = [task EXCEPT !.pc = "parse", !.progress = Append(@, 5)]
    /\ UNCHANGED TaskFrame

\* lines 28-31
ParseTaskData ==
    /\ task.pc = "parse"
    /\ IF task.dataOk
       THEN task' = [task EXCEPT !.pc = "providerID"]
       ELSE TaskReturn("parse")
    /\ UNCHANGED TaskFrame

\* lines 34-37
ReadProviderID ==
    /\ task.pc = "providerID"
    /\ IF task.providerID = NilProviderID
       THEN TaskReturn("no provider")
       ELSE task' = [task EXCEPT !.pc = "progress10"]
    /\ UNCHANGED TaskFrame

\* line 40
UpdateProgress10 ==
    /\ task.pc = "progress10"
    /\ task' = [task EXCEPT !.pc = "lookup", !.progress = Append(@, 10)]
    /\ UNCHANGED TaskFrame

IsActiveProvider_AnyStatus(id) == id \in DOMAIN providers

\* line 44: Where("id = ? AND status = ?", providerID, "active").First(&prov)
IsActiveProvider(id) == id \in DOMAIN providers /\ providers[id] = "active"

\* lines 43-46: the row is found, or First returns an error: no such row, or
\* the query itself failed
LookupProvider ==
    /\ task.pc = "lookup"
    /\ \/ /\ IsActiveProvider(task.providerID)
          /\ task' = [task EXCEPT !.pc = "progress20"]
       \/ TaskReturn("lookup")
    /\ UNCHANGED TaskFrame

\* line 54
UpdateProgress20 ==
    /\ task.pc = "progress20"
    /\ task' = [task EXCEPT !.pc = "sync", !.progress = Append(@, 20)]
    /\ UNCHANGED TaskFrame

\* lines 59-62: the pass has returned
AfterSync ==
    /\ task.pc = "syncing"
    /\ pc = "done"
    /\ IF ret.err # NoErr
       THEN TaskReturn("sync")
       ELSE task' = [task EXCEPT !.pc = "progress90"]
    /\ UNCHANGED TaskFrame

\* line 65
UpdateProgress90 ==
    /\ task.pc = "progress90"
    /\ task' = [task EXCEPT !.pc = "complete", !.progress = Append(@, 90)]
    /\ UNCHANGED TaskFrame

CompleteMainTask_Silent ==
    /\ task.pc = "complete"
    /\ task' = [task EXCEPT !.pc = "return"]
    /\ UNCHANGED TaskFrame

\* lines 67-83: the message is built and handed to CompleteMainTask, whose
\* error is only logged
CompleteMainTask ==
    /\ task.pc = "complete"
    /\ task' = [task EXCEPT !.pc = "return",
                            !.sink = Append(@, [success |-> TRUE,
                                                msg |-> CompletionMsg(ret)])]
    /\ UNCHANGED TaskFrame

\* line 93
ReturnNil ==
    /\ task.pc = "return"
    /\ TaskReturn(NoErr)
    /\ UNCHANGED TaskFrame

NextTask ==
    \/ Next
    \/ Cancel
    \/ UpdateProgress5
    \/ ParseTaskData
    \/ ReadProviderID
    \/ UpdateProgress10
    \/ LookupProvider
    \/ UpdateProgress20
    \/ AfterSync
    \/ UpdateProgress90
    \/ CompleteMainTask
    \/ ReturnNil

SpecTask == InitTask /\ [][NextTask]_vars

\* =====================================================================
\* Properties
\* =====================================================================
Returned == pc = "done"
ReturnedNil == pc = "done" /\ ret.err = NoErr
InLoop == pc \in {"loop", "txCount", "txDeletePorts", "txDelete", "txCommit"}
Detected == InLoop \/ (ReturnedNil /\ fault = "none")
JustDetected == (pc = "loop" /\ idx = 1) \/ (Detected /\ orphanedInstances = <<>>)

NamesOf(listing) == {listing[k] : k \in 1..Len(listing)}
NotListed(row) == \A k \in 1..Len(remoteInstances) : remoteInstances[k] # row.Name
Failed(e) == e.result \in {"count", "delete", "commit"}
Entries == {log[k] : k \in 1..Len(log)}
OrphanIds == {orphanedInstances[k].ID : k \in 1..Len(orphanedInstances)}
PrePortsOf(instId) == {p \in pre.ports : p.InstanceID = instId}
Live(row) == ~row.DeletedAt /\ row.Status \notin ExcludedStatuses

\* ---------------------------------------------------------------- C1
\* C1: the orphan list is exactly the rows of dbInstances, in their order, whose
\* name no element of the remote listing carries; any listing with the same set
\* of names gives the same orphans; and the list is empty when the names of the
\* listing include the names of all rows.
C1_OrphansAreLocalOnly ==
    Detected =>
        /\ orphanedInstances = SelectSeq(dbInstances, NotListed)
        /\ JustDetected =>
              \A other \in SeqsUpTo(Names, MaxRemote) :
                 NamesOf(other) = NamesOf(remoteInstances) =>
                    DetectOrphans(dbInstances, BuildRemoteInstanceMap(other))
                       = orphanedInstances
        /\ ({dbInstances[k].Name : k \in 1..Len(dbInstances)} \subseteq NamesOf(remoteInstances)
               => orphanedInstances = <<>>)

\* a listing that names one instance twice, a row it names and a row it does not
C1_Witness ==
    /\ Detected
    /\ Len(remoteInstances) = 2
    /\ remoteInstances[1] = remoteInstances[2]
    /\ Len(dbInstances) = 2
    /\ Len(orphanedInstances) = 1

\* ---------------------------------------------------------------- C2
\* C2: when the pass has returned, every orphan whose transaction met no failure,
\* while the transaction of another orphan failed at the count, at the soft
\* delete or at the commit, was attempted, is deleted in storage, has its name in
\* the returned names, and the returned counts cover all such orphans.
C2_Isolated(y) ==
    \E x \in Entries : x.id # y.ID /\ Failed(x)
Unfailed(y) == \A e \in Entries : e.id = y.ID => ~Failed(e)
C2_Survivors ==
    {k \in 1..Len(orphanedInstances) :
        C2_Isolated(orphanedInstances[k]) /\ Unfailed(orphanedInstances[k])}

C2_PartialFailureIsolation ==
    Returned /\ fault = "none" =>
        /\ \A k \in C2_Survivors :
              LET y == orphanedInstances[k] IN
                 /\ \E e \in Entries : e.id = y.ID
                 /\ instances[y.ID].DeletedAt
                 /\ ~pre.instances[y.ID].DeletedAt
                 /\ y.Name \in NamesOf(ret.names)
        /\ ret.cleaned >= Cardinality(C2_Survivors)
        /\ ret.instances >= Cardinality(C2_Survivors)

\* the first transaction commits and the second fails afterwards
C2_Witness ==
    /\ ReturnedNil
    /\ Len(log) = 2
    /\ log[1].result = "ok"
    /\ log[2].result = "commit"
    /\ instances[log[1].id].DeletedAt

\* the first transaction fails at the soft delete and the second still commits
C2_WitnessOtherOrder ==
    /\ ReturnedNil
    /\ Len(log) = 2
    /\ log[1].result = "delete"
    /\ log[2].result = "ok"
    /\ instances[log[2].id].DeletedAt

\* ---------------------------------------------------------------- C3
\* C3 as stated: after a pass that returned nil, every row of the provider that
\* is still present with a status outside deleted/deleting has a name of the
\* remote listing of the pass.
C3_Original ==
    ReturnedNil =>
        \A i \in InstIds :
            (instances[i].ProviderID = prov /\ Live(instances[i]))
                => instances[i].Name \in NamesOf(remoteInstances)

\* C3 amended: after a pass that returned nil, every such row has a name of the
\* remote listing, or is an orphan of the pass whose transaction did not commit.
C3_RemainingAreRemoteOrFailed ==
    ReturnedNil =>
        \A i \in InstIds :
            (instances[i].ProviderID = prov /\ Live(instances[i]))
                => \/ instances[i].Name \in NamesOf(remoteInstances)
                   \/ \E e \in Entries : e.id = i /\ Failed(e)

\* one orphan was removed and a listed row of the provider remains
C3_Witness ==
    /\ ReturnedNil
    /\ \E e \in Entries : e.result = "ok"
    /\ \E i \in InstIds : /\ instances[i].ProviderID = prov
                          /\ Live(instances[i])
                          /\ instances[i].Name \in NamesOf(remoteInstances)

\* ---------------------------------------------------------------- C4
\* C4 as stated: in every state of storage, no port row has an owning instance
\* that a pass removed.
C4_NoPortOutlivesInstance ==
    \A i \in InstIds :
        instances[i].DeletedAt => \A p \in ports : p.InstanceID # i

\* ---------------------------------------------------------------- C5
\* C5: a pass in which the provider lookup, the connectivity check, the remote
\* listing or the local query failed returns an error with all counts zero and
\* no names, has run no transaction and leaves both tables as they were.
C5_FatalStagesLeaveStorage ==
    Returned /\ fault # "none" =>
        /\ ret.err # NoErr
        /\ ret.checked = 0 /\ ret.cleaned = 0 /\ ret.instances = 0 /\ ret.ports = 0
        /\ ret.names = <<>>
        /\ log = <<>>
        /\ orphanedInstances = <<>>
        /\ instances = pre.instances
        /\ ports = pre.ports

\* the local query failed although the provider listed nothing and rows exist
C5_Witness ==
    /\ Returned
    /\ fault = "Find"
    /\ remoteInstances = <<>>
    /\ \E i \in InstIds : instances[i].ProviderID = prov /\ Live(instances[i])

\* ---------------------------------------------------------------- C6
\* C6: a pass whose first four calls succeeded returns nil whatever the
\* transactions did, and its transactions are those of the detected orphans,
\* one for each, in the order of the orphan list.
C6_PassSucceedsAndAttemptsAll ==
    Returned /\ fault = "none" =>
        /\ ret.err = NoErr
        /\ Len(log) = Len(orphanedInstances)
        /\ \A k \in 1..Len(log) : log[k].id = orphanedInstances[k].ID

\* two orphans, both transactions failed, at different steps
C6_Witness ==
    /\ ReturnedNil
    /\ Len(orphanedInstances) = 2
    /\ Len(log) = 2
    /\ log[1].result = "count"
    /\ log[2].result = "commit"

\* ---------------------------------------------------------------- C7
RECURSIVE SumPrePorts(_)
SumPrePorts(ids) ==
    IF ids = {} THEN 0
    ELSE LET i == CHOOSE j \in ids : TRUE
         IN  Cardinality(PrePortsOf(i)) + SumPrePorts(ids \ {i})

SoftDeleteFailed == {e.id : e \in {f \in Entries : f.result = "delete"}}

\* the orphans whose closure ran to its end, in the order of the loop
Completed == SelectSeq(log, LAMBDA e : e.result \in {"commit", "ok"})
CompletedNames == [k \in 1..Len(Completed) |-> Completed[k].name]

\* C7 as stated: an orphan whose soft delete failed is, after the pass, the row
\* it was before the pass, with all the port rows it had; the three returned
\* counts count only other orphans, the returned port total holds only the port
\* rows of other orphans, and its name is not among the returned names.
C7_Original ==
    ReturnedNil =>
        /\ \A i \in SoftDeleteFailed :
              /\ instances[i] = pre.instances[i]
              /\ PrePortsOf(i) \subseteq ports
              /\ pre.instances[i].Name \notin NamesOf(ret.names)
        /\ ret.instances <= Cardinality(OrphanIds \ SoftDeleteFailed)
        /\ ret.cleaned <= Cardinality(OrphanIds \ SoftDeleteFailed)
        /\ ret.ports <= SumPrePorts(OrphanIds \ SoftDeleteFailed)

\* C7: an orphan whose soft delete failed is, after the pass, the row it was
\* before the pass, with all the port rows it had; the three returned counts
\* count only other orphans, the returned port total holds only the port rows of
\* other orphans, and no entry of the returned names stands for it: the returned
\* names are one entry for each orphan whose closure ran to its end, in the
\* order of the loop, so its name is returned only where such an orphan carries
\* the same name.
C7_SoftDeleteFailureRollsBack ==
    ReturnedNil =>
        /\ \A i \in SoftDeleteFailed :
              /\ instances[i] = pre.instances[i]
              /\ PrePortsOf(i) \subseteq ports
              /\ \A k \in 1..Len(Completed) : Completed[k].id # i
              /\ pre.instances[i].Name \in NamesOf(ret.names) =>
                    \E j \in OrphanIds \ SoftDeleteFailed :
                        pre.instances[j].Name = pre.instances[i].Name
        /\ ret.names = CompletedNames
        /\ Len(ret.names) <= Cardinality(OrphanIds \ SoftDeleteFailed)
        /\ ret.instances <= Cardinality(OrphanIds \ SoftDeleteFailed)
        /\ ret.cleaned <= Cardinality(OrphanIds \ SoftDeleteFailed)
        /\ ret.ports <= SumPrePorts(OrphanIds \ SoftDeleteFailed)

\* the port rows were deleted inside the transaction before the soft delete failed
C7_Witness ==
    /\ ReturnedNil
    /\ \E e \in Entries : /\ e.result = "delete"
                          /\ ~e.warned
                          /\ e.counted > 0
                          /\ PrePortsOf(e.id) # {}
                          /\ PrePortsOf(e.id) \subseteq ports
    /\ \E e \in Entries : e.result = "ok" /\ e.counted > 0

\* ---------------------------------------------------------------- C8
Committed == {i \in InstIds : instances[i].DeletedAt /\ ~pre.instances[i].DeletedAt}

\* C8 as stated: at the return of a pass the cleaned-instance count and the
\* processed count both equal the number of instances whose removal the pass
\* committed, and the returned names are the names of exactly those instances.
C8_CountsMatchCommitted ==
    Returned =>
        /\ ret.instances = ret.cleaned
        /\ ret.cleaned = Cardinality(Committed)
        /\ Len(ret.names) = Cardinality(Committed)
        /\ NamesOf(ret.names) = {instances[i].Name : i \in Committed}

\* ---------------------------------------------------------------- C9
\* C9 as stated: the returned port-mapping count is the number of port rows the
\* pass removed from storage.
C9_PortCountIsRemoved ==
    Returned => ret.ports = Cardinality(pre.ports \ ports)

\* --------------------------------------------------------------- C10
AllCleaned(h) ==
    /\ h.ret.err = NoErr
    /\ Len(h.log) = Len(h.orphans)
    /\ \A k \in 1..Len(h.log) : h.log[k].result = "ok"

\* C10: when a pass cleaned every orphan it detected and the next pass, for the
\* same provider and with the same remote listing, got through its listing and
\* its query, the next pass detects no orphan, leaves both tables as they are
\* and returns zero cleaned counts and a checked count that is the checked count
\* of the first pass less the instances the first pass cleaned.
C10_RerunFindsNothing ==
    (/\ Len(hist) = 2
     /\ hist[1].prov = hist[2].prov
     /\ AllCleaned(hist[1])
     /\ hist[2].ret.err = NoErr
     /\ hist[2].listing = hist[1].listing
     /\ hist[2].pre.instances = hist[1].post[1]
     /\ hist[2].pre.ports = hist[1].post[2]) =>
        /\ hist[2].orphans = <<>>
        /\ hist[2].log = <<>>
        /\ hist[2].post = <<hist[2].pre.instances, hist[2].pre.ports>>
        /\ hist[2].ret.cleaned = 0
        /\ hist[2].ret.instances = 0
        /\ hist[2].ret.ports = 0
        /\ hist[2].ret.names = <<>>
        /\ hist[2].ret.checked = hist[1].ret.checked - hist[1].ret.instances

\* the first pass removed two orphans and the second pass has returned
C10_Witness ==
    /\ Len(hist) = 2
    /\ hist[1].prov = hist[2].prov
    /\ AllCleaned(hist[1])
    /\ Len(hist[1].orphans) = 2
    /\ hist[2].ret.err = NoErr
    /\ hist[2].ret.checked = 0

\* --------------------------------------------------------------- C15
QueriedBefore == {i \in InstIds : pre.instances[i].ProviderID = prov /\ Live(pre.instances[i])}

\* C15: a pass that returned nil returns as checked count the number of rows of
\* the provider that are not soft-deleted and have a status outside
\* deleted/deleting, whatever was orphaned and whatever the transactions did.
C15_CheckedIsQueried ==
    ReturnedNil =>
        /\ ret.checked = Cardinality(QueriedBefore)
        /\ ret.checked = Len(dbInstances)

\* two rows queried, one of them orphaned, and its transaction failed
C15_Witness ==
    /\ ReturnedNil
    /\ ret.checked = 2
    /\ Len(orphanedInstances) = 1
    /\ Len(log) = 1
    /\ Failed(log[1])

\* --------------------------------------------------------------- C17
Removable(i) ==
    /\ pre.instances[i].ProviderID = prov
    /\ Live(pre.instances[i])
    /\ pre.instances[i].Name \notin NamesOf(remoteInstances)

C17_OnlyOrphansChange ==
    /\ DOMAIN instances = DOMAIN pre.instances
    /\ ports \subseteq pre.ports
    /\ \A i \in InstIds :
          instances[i] # pre.instances[i] =>
             /\ Removable(i)
             /\ instances[i] = [pre.instances[i] EXCEPT !.DeletedAt = TRUE]
    /\ \A p \in pre.ports \ ports : Removable(p.InstanceID)

C17_ProviderUntouched ==
    \A p \in Providers : remote[p] # Unlisted => remote'[p] = remote[p]

\* C17: a pass creates no instance row and no port row, changes nothing at the
\* provider, and the only rows it removes are instances of its provider that
\* were not deleted, had a status outside deleted/deleting and a name the remote
\* listing lacks, and port rows owned by those; every other row stays as it was.
C17_PassOnlyRemovesOrphans ==
    /\ []C17_OnlyOrphansChange
    /\ [][C17_ProviderUntouched]_vars

\* an orphan and its port row are gone while a row of the other provider with
\* the same unlisted name, and its port row, are still there
C17_Witness ==
    /\ ReturnedNil
    /\ \E i, j \in InstIds :
          /\ instances[i].DeletedAt
          /\ instances[j] = pre.instances[j]
          /\ instances[j].ProviderID # prov
          /\ Live(instances[j])
          /\ instances[j].Name = instances[i].Name
          /\ \E p \in pre.ports \ ports : p.InstanceID = i
          /\ \E p \in ports : p.InstanceID = j

\* --------------------------------------------------------------- C19
RECURSIVE IsSubseq(_, _)
IsSubseq(a, b) ==
    IF a = <<>> THEN TRUE
    ELSE IF b = <<>> THEN FALSE
    ELSE IF Head(a) = Head(b) THEN IsSubseq(Tail(a), Tail(b))
    ELSE IsSubseq(a, Tail(b))

NoDuplicates(a) == \A i, j \in 1..Len(a) : i # j => a[i] # a[j]
OrphanNames == [k \in 1..Len(orphanedInstances) |-> orphanedInstances[k].Name]
InTransaction == pc \in {"txCount", "txDeletePorts", "txDelete", "txCommit"}

C19_StepOrder ==
    /\ (pc = "txCount" /\ pc' # pc) =>
          \/ pc' = "txDeletePorts" /\ txPorts' = {} /\ txInst' = {}
          \/ pc' = "loop" /\ idx' = idx + 1
    /\ (pc = "txDeletePorts" /\ pc' # pc) => (pc' = "txDelete" /\ txInst' = {})
    /\ (pc = "txDelete" /\ pc' # pc) =>
          \/ pc' = "txCommit" /\ txInst' = {Orphan.ID} /\ txPorts' = txPorts
          \/ pc' = "loop" /\ idx' = idx + 1
    /\ (pc = "txCommit" /\ pc' # pc) => (pc' = "loop" /\ idx' = idx + 1)
    /\ (pc' = "txCount" /\ pc # pc') => pc = "loop"
    /\ txPorts' # txPorts => (pc = "txDeletePorts" \/ pc' = "loop")
    /\ (InTransaction /\ pc' # "loop") =>
          (idx' = idx /\ orphanedInstances' = orphanedInstances)

\* one name for each orphan whose closure ran to its end, the one of the open
\* transaction included once its soft delete is done
NamesSoFar ==
    CompletedNames \o (IF pc = "txCommit" THEN <<Orphan.Name>> ELSE <<>>)

C19_ListsOriginal ==
    /\ IsSubseq(orphanedInstances, dbInstances)
    /\ IsSubseq(cleanedInstanceNames, OrphanNames)
    /\ NoDuplicates(cleanedInstanceNames)
    /\ (Returned /\ ret.err = NoErr) => ret.names = cleanedInstanceNames

\* C19 as stated: inside a transaction the count comes first, then the deletion
\* of the port rows, then the soft delete, then the commit, all for the same
\* orphan, and the next transaction begins only after that; the cleaned names
\* are a subsequence without duplicates of the names of the orphan list, and the
\* orphan list is a subsequence of the rows of the local query.
C19_Original ==
    /\ [][C19_StepOrder]_vars
    /\ []C19_ListsOriginal

C19_Lists ==
    /\ IsSubseq(orphanedInstances, dbInstances)
    /\ IsSubseq(cleanedInstanceNames, OrphanNames)
    /\ InLoop \/ ReturnedNil => cleanedInstanceNames = NamesSoFar
    /\ NoDuplicates(OrphanNames) => NoDuplicates(cleanedInstanceNames)
    /\ (Returned /\ ret.err = NoErr) => ret.names = cleanedInstanceNames

\* C19: inside a transaction the count comes first, then the deletion of the
\* port rows, then the soft delete, then the commit, all for the same orphan,
\* and the next transaction begins only after that; the cleaned names are a
\* subsequence of the names of the orphan list, one entry for each orphan whose
\* closure ran to its end, and so without duplicates where the orphans carry
\* different names; the orphan list is a subsequence of the rows of the local
\* query.
C19_OrderedSteps ==
    /\ [][C19_StepOrder]_vars
    /\ []C19_Lists

\* the database returned the row with the larger ID first; the first of the two
\* orphans failed and the second one is the only cleaned name
C19_Witness ==
    /\ ReturnedNil
    /\ Len(orphanedInstances) = 2
    /\ Len(dbInstances) = 2
    /\ dbInstances[1].ID > dbInstances[2].ID
    /\ log[1].result = "delete"
    /\ ret.names = <<orphanedInstances[2].Name>>

\* ------------------------------------------------- status predicates
\* package constant: GetStableStatuses, GetTransitionalStatuses, GetTerminalStatuses
GetStableStatuses == <<"running", "stopped", "error">>
GetTransitionalStatuses == <<"creating", "resetting">>
GetTerminalStatuses_NoFailed == <<"deleting", "deleted">>

GetTerminalStatuses == <<"deleting", "deleted", "failed">>

\* the loop of IsStableStatus, IsTransitionalStatus and IsTerminalStatus
InStatuses(st, list) == \E k \in 1..Len(list) : st = list[k]
IsStableStatus(st) == InStatuses(st, GetStableStatuses)
IsTransitionalStatus(st) == InStatuses(st, GetTransitionalStatuses)
IsTerminalStatus(st) == InStatuses(st, GetTerminalStatuses)

\* strings a caller may hand over: the eight constants and strings that are none
StatusInputs ==
    {"running", "stopped", "error", "creating", "resetting", "deleting", "deleted",
     "failed", "", "unknown", "RUNNING", "Deleted", "pending", "active", "paused",
     "fail"}

\* no pass, no task: only the predicates are called
InitStatus ==
    /\ instances = <<>>
    /\ ports = {}
    /\ InitPass
    /\ passesLeft = 0
    /\ ctx = "background"
    /\ providers = [p \in Providers |-> "active"]
    /\ task = NoTask
    /\ second = NoSecond
    /\ status \in StatusInputs
    /\ classified = NotClassified

Unclassified == <<storage, pc, prov, locals, counters, ret, passesLeft, remote, history,
                  ctx, providers, task, second, status>>

Answered(k, b) ==
    [n \in DOMAIN classified \cup {k} |-> IF n = k THEN b ELSE classified[n]]

CallIsStableStatus ==
    /\ "stable" \notin DOMAIN classified
    /\ classified' = Answered("stable", IsStableStatus(status))
    /\ UNCHANGED Unclassified

CallIsTransitionalStatus ==
    /\ "transitional" \notin DOMAIN classified
    /\ classified' = Answered("transitional", IsTransitionalStatus(status))
    /\ UNCHANGED Unclassified

CallIsTerminalStatus ==
    /\ "terminal" \notin DOMAIN classified
    /\ classified' = Answered("terminal", IsTerminalStatus(status))
    /\ UNCHANGED Unclassified

NextStatus ==
    \/ CallIsStableStatus
    \/ CallIsTransitionalStatus
    \/ CallIsTerminalStatus

SpecStatus == InitStatus /\ [][NextStatus]_vars

\* --------------------------------------------------------------- C16
AllClassified == DOMAIN classified = {"stable", "transitional", "terminal"}
Answers == {k \in DOMAIN classified : classified[k]}

\* C16: for each of running, stopped, error, creating, resetting, deleting,
\* deleted and failed exactly one of the three predicates answers true, and for
\* any other string all three answer false.
C16_ExactlyOneClass ==
    AllClassified =>
        IF status \in {"running", "stopped", "error", "creating", "resetting",
                       "deleting", "deleted", "failed"}
        THEN Cardinality(Answers) = 1
        ELSE Answers = {}

\* "failed" was put to the three predicates and only the terminal one said yes
C16_Witness ==
    /\ status = "failed"
    /\ AllClassified
    /\ Answers = {"terminal"}

\* ------------------------------------------------ properties of the task
TaskReturned == task.pc = "returned"
TaskSucceeded == TaskReturned /\ task.err = NoErr
TaskFailed == TaskReturned /\ task.err # NoErr
ZeroCounts(r) ==
    /\ r.checked = 0 /\ r.cleaned = 0 /\ r.instances = 0 /\ r.ports = 0 /\ r.names = <<>>
Reported(n) == \E k \in 1..Len(task.progress) : task.progress[k] = n
InCleanup == ctx = "cancelled" /\ task.cancelledAt = "cleanup" /\ InLoop

\* --------------------------------------------------------------- C11
\* C11 as stated: once a cancellation has arrived during the cleanup phase the
\* storage and the counts no longer change, no transaction is begun for an orphan
\* that had not been started, and the pass returns nil with the counts and names
\* it had when the cancellation arrived.
C11_Abandon ==
    InCleanup =>
        /\ storage' = storage
        /\ counters' = counters
        /\ pc = "loop" => pc' # "txCount"
        /\ pc' = "done" =>
              ret' = Result(Len(dbInstances), cleanedCount, cleanedInstances, cleanedPorts,
                            cleanedInstanceNames, NoErr)

C11_Original == [][C11_Abandon]_vars

C11_AttemptAndFail ==
    InCleanup =>
        /\ storage' = storage
        /\ counters' = counters
        /\ (pc = "loop" /\ idx <= Len(orphanedInstances)) => pc' \in {"loop", "txCount"}
        /\ (pc # "loop" /\ pc' # pc) =>
              \/ pc = "txDeletePorts" /\ pc' = "txDelete" /\ warned' /\ log' = log
              \/ /\ pc' = "loop"
                 /\ idx' = idx + 1
                 /\ Len(log') = Len(log) + 1
                 /\ Failed(log'[Len(log')])
        /\ pc' = "done" =>
              /\ Len(log') = Len(orphanedInstances)
              /\ ret' = Result(Len(dbInstances), cleanedCount, cleanedInstances,
                               cleanedPorts, cleanedInstanceNames, NoErr)

\* C11 amended: once a cancellation has arrived during the cleanup phase the
\* storage and the counts no longer change; a transaction is still begun for
\* every orphan that is left; the running transaction and each later one fail
\* (a failed port-mapping deletion is only logged, the soft delete then fails);
\* the pass returns nil with the counts and names it had when the cancellation
\* arrived.
C11_CancelledCleanup == [][C11_AttemptAndFail]_vars

\* the first orphan was committed, the cancellation arrived, the second orphan
\* was tried and failed, and the pass returned nil with one cleaned instance
C11_Witness ==
    /\ ReturnedNil
    /\ ctx = "cancelled"
    /\ task.cancelledAt = "cleanup"
    /\ Len(log) = 2
    /\ log[1].result = "ok"
    /\ Failed(log[2])
    /\ ret.cleaned = 1
    /\ ~instances[orphanedInstances[2].ID].DeletedAt

\* --------------------------------------------------------------- C12
ObservedAtListing ==
    /\ task.cancelledAt = "listing"
    /\ Returned
    /\ fault \notin {"GetProviderByID", "CheckProviderConnection"}

\* C12 as stated: a cancellation observed at the listing call ends the pass
\* with zero counts and a nil error, and the task does not return an error.
C12_Original ==
    ObservedAtListing =>
        /\ ZeroCounts(ret)
        /\ ret.err = NoErr
        /\ TaskReturned => task.err = NoErr

\* C12 amended: a cancellation observed at the listing call makes the listing
\* fail; the pass returns zero counts and the listing error, leaves the storage
\* as it was, and the task returns an error to its caller without reporting 90
\* and without notifying the completion sink.
C12_CancelledListingFails ==
    ObservedAtListing =>
        /\ fault = "ListInstances"
        /\ ZeroCounts(ret)
        /\ ret.err = "ListInstances"
        /\ instances = pre.instances
        /\ ports = pre.ports
        /\ TaskReturned =>
              /\ task.err = "sync"
              /\ ~Reported(90)
              /\ task.sink = <<>>

\* cancelled before the listing, the task has returned the error of the sync
C12_Witness ==
    /\ task.cancelledAt = "listing"
    /\ fault = "ListInstances"
    /\ TaskFailed
    /\ task.progress = <<5, 10, 20>>

\* --------------------------------------------------------------- C13
\* C13 as stated: a run of the task that has returned has notified the sink
\* exactly once, with success on a nil return and with failure otherwise.
C13_Original ==
    TaskReturned =>
        /\ Len(task.sink) = 1
        /\ task.sink[1].success = (task.err = NoErr)

\* C13 amended: a run that returns nil has notified the sink exactly once, with
\* success = true and the summary of the values the pass returned, before it
\* returned; a run that returns an error has not notified the sink.
C13_NotifiesOnSuccessOnly ==
    /\ task.sink # <<>> =>
          /\ task.sink = <<[success |-> TRUE, msg |-> CompletionMsg(ret)]>>
          /\ task.pc \in {"return", "returned"}
          /\ ReturnedNil
    /\ task.pc = "return" => task.sink # <<>>
    /\ TaskSucceeded => task.sink # <<>>
    /\ TaskFailed => task.sink = <<>>

\* a successful run with one cleaned instance has notified the sink once
C13_Witness ==
    /\ TaskSucceeded
    /\ Len(task.sink) = 1
    /\ task.sink[1].msg.text = "cleaned"
    /\ task.sink[1].msg.instances = 1

\* --------------------------------------------------------------- C14
\* C14: the summary of a successful run says "no orphans found" exactly when
\* detection found no orphan; when there was an orphan it reports the checked
\* count and the number of instances cleaned.
C14_SummaryTellsDetection ==
    TaskSucceeded =>
        /\ (task.sink[1].msg.text = "no orphans found") <=> (orphanedInstances = <<>>)
        /\ task.sink[1].msg.checked = ret.checked
        /\ orphanedInstances # <<>> => task.sink[1].msg.instances = ret.instances

\* --------------------------------------------------------------- C20
BadTask ==
    \/ ~task.dataOk
    \/ task.providerID = NilProviderID
    \/ task.providerID \notin Providers
    \/ providers[task.providerID] # "active"

RECURSIVE IsPrefix(_, _)
IsPrefix(a, b) ==
    IF a = <<>> THEN TRUE
    ELSE IF b = <<>> THEN FALSE
    ELSE Head(a) = Head(b) /\ IsPrefix(Tail(a), Tail(b))

\* C20: a task whose data does not parse, that has no provider ID, or whose
\* provider is not an active row returns an error, and the provider is never
\* contacted and no row changes (nor are they when the lookup query itself
\* fails); the progress reported by any run is 5, 10, 20, 90 in that order,
\* each at most once, and 90 only after the pass returned nil.
C20_BadTaskTouchesNothing ==
    /\ BadTask =>
          /\ pc = "idle"
          /\ \A p \in Providers : remote[p] = Unlisted
          /\ instances = pre.instances
          /\ ports = pre.ports
          /\ hist = <<>>
          /\ TaskReturned => task.err \in {"parse", "no provider", "lookup"}
    /\ (TaskReturned /\ task.err \in {"parse", "no provider", "lookup"}) =>
          /\ pc = "idle"
          /\ \A p \in Providers : remote[p] = Unlisted
          /\ instances = pre.instances
          /\ ports = pre.ports
    /\ IsPrefix(task.progress, <<5, 10, 20, 90>>)
    /\ Reported(90) => ReturnedNil

\* the provider of the task is inactive and the run stopped at the lookup
C20_Witness ==
    /\ TaskFailed
    /\ task.err = "lookup"
    /\ task.providerID \in Providers
    /\ providers[task.providerID] = "inactive"
    /\ task.progress = <<5, 10>>
    /\ \E i \in InstIds : instances[i].ProviderID = task.providerID

\* --------------------------------------------------------------- C18
\* what the transaction of an orphan did in the run, by the orphan's ID
Outcome(orphan, lg) ==
    IF \E k \in 1..Len(lg) : lg[k].id = orphan.ID
    THEN lg[CHOOSE k \in 1..Len(lg) : lg[k].id = orphan.ID]
    ELSE [result |-> "none", warned |-> FALSE]

\* the cleanup loop run alone on the tables st, every transaction ending as it
\* ended in the run
RECURSIVE CleanAlone(_, _, _, _)
CleanAlone(orphans, st, r, lg) ==
    IF orphans = <<>> THEN [ret |-> r, st |-> st]
    ELSE LET o == Head(orphans)
             e == Outcome(o, lg)
             counted == CountPorts(st.ports, {}, o.ID)
             gone == IF e.warned THEN {} ELSE PortsOfInstance(st.ports, o.ID)
             body == e.result \in {"commit", "ok"}
             r2 == [r EXCEPT
                      !.cleaned = IF e.result = "ok" THEN CleanedCountAfter(@) ELSE @,
                      !.instances = IF body THEN CleanedInstancesAfter(@) ELSE @,
                      !.ports = IF body THEN CleanedPortsAfter(@, counted) ELSE @,
                      !.names = IF body THEN CleanedNamesAfter(@, o) ELSE @]
             st2 == IF e.result = "ok"
                    THEN [instances |-> SoftDeleteInstances(st.instances, {o.ID}),
                          ports |-> DeletePortRows(st.ports, gone)]
                    ELSE st
         IN  CleanAlone(Tail(orphans), st2, r2, lg)

\* one pass run alone on the tables st, for the provider, the listing, the
\* order of the rows and the failures of the finished pass h
PassAlone(st, h) ==
    IF h.ret.err # NoErr THEN [ret |-> Result(0, 0, 0, 0, <<>>, h.ret.err), st |-> st]
    ELSE LET rows == FindProviderInstances(st.instances, h.prov)
             db == IF h.db \in RowOrders(rows) THEN h.db
                   ELSE CHOOSE d \in RowOrders(rows) : TRUE
             orphans == DetectOrphans(db, BuildRemoteInstanceMap(h.listing))
         IN  CleanAlone(orphans, st, Result(Len(db), 0, 0, 0, <<>>, NoErr), h.log)

BothReturned == pc = "done" /\ second.pc = "done" /\ Len(hist) = 2
Tables == [instances |-> instances, ports |-> ports]
FirstCalled == IF hist[1].prov = FirstProvider THEN hist[1] ELSE hist[2]

OneAfterTheOther(a, b) ==
    LET one == PassAlone(FirstCalled.pre, a)
        two == PassAlone(one.st, b)
    IN  /\ one.ret = a.ret
        /\ two.ret = b.ret
        /\ two.st = Tables

\* C18: when two passes for two different providers have run at the same time,
\* whatever the interleaving of their steps, the tables and the values each pass
\* returned are those of running the two passes one after the other, in either
\* order, with the same listings and the same failures.
C18_ConcurrentAsSequential ==
    BothReturned =>
        /\ hist[1].prov # hist[2].prov
        /\ OneAfterTheOther(hist[1], hist[2])
        /\ OneAfterTheOther(hist[2], hist[1])

\* both passes cleaned an orphan, and the one that returned first committed
\* its orphan after the other pass had committed its own
C18_Witness ==
    /\ BothReturned
    /\ hist[1].ret.cleaned = 1
    /\ hist[2].ret.cleaned = 1
    /\ hist[1].ret.ports = 1
    /\ \E i \in InstIds :
          /\ instances[i].ProviderID = hist[2].prov
          /\ hist[1].post[1][i].DeletedAt
          /\ ~hist[1].pre.instances[i].DeletedAt

====
